---- MODULE Spec2Model ----
(***************************************************************************)
(* Model of the Whirl/MobSin game engine's object registry                 *)
(* (ObjectManager: add, get, _destroy), of the Base constructor that       *)
(* registers every game object, and of the Viewport/Stage binding and the  *)
(* setup slots that _destroy clears; of the Container tree (child.add,     *)
(* child.remove, calculateDerived); and of the UpdateManager loop          *)
(* (_start, _stop, _update).                                               *)
(***************************************************************************)
EXTENDS Integers, Sequences, FiniteSets, TLC

\* ---------------------------------------------------------------- bounds
NumObjects == 4     \* object identities 1..NumObjects
MaxIndex == 3       \* cap on ObjectManager._index (number of successful adds)

\* ---------------------------------------------------------------- values
Null == 0           \* JavaScript null (no object)
NoId == -1          \* JavaScript undefined in the _id field

Objects == 1..NumObjects

\* The class of each object identity: Stage, Viewport, another class that
\* extends Base, or a value that does not inherit from Base.
KindOf(o) ==
    CASE o % 6 = 1 -> "Stage"
      [] o % 6 = 2 -> "Viewport"
      [] o % 6 = 3 -> "NonBase"
      [] o % 6 = 4 -> "Stage"
      [] o % 6 = 5 -> "Viewport"
      [] OTHER     -> "Base"

IsBase(o) == KindOf(o) # "NonBase"          \* object instanceof Base
IsViewport(o) == KindOf(o) = "Viewport"     \* object instanceof Viewport
IsStage(o) == KindOf(o) = "Stage"           \* object instanceof Stage

Filters == {"none", "stages", "viewports", "plain"}

Range(s) == {s[i] : i \in 1..Len(s)}

VARIABLES
    created,        \* Base-derived objects that have been constructed
    objid,          \* Base._id of every object (NoId = undefined)
    index,          \* ObjectManager._index
    store,          \* ObjectManager._store
    viewports,      \* ObjectManager._viewports
    stages,         \* ObjectManager._stages
    vstage,         \* Viewport.stage of every viewport (Null = unbound)
    setupViewport,  \* game.setup.viewport
    setupStage,     \* game.setup.stage
    emitted,        \* events emitted by the last operation, in order
    got,            \* array last returned by get, as the caller holds it
    last,           \* the last operation and its argument
    issued          \* history: every id the manager has assigned

regVars == <<created, objid, index, store, viewports, stages, vstage,
             setupViewport, setupStage, emitted, got, last, issued>>

\* The Container tree.
VARIABLES
    built,          \* containers that have been constructed
    own,            \* position, alpha and scale of every container
    parent,         \* Entity.parent of every object (Null = none)
    children,       \* the child list of every container
    derived,        \* Entity.derived of every container
    tlast           \* the last tree operation, its arguments and result

treeVars == <<built, own, parent, children, derived, tlast>>

\* The UpdateManager.
VARIABLES
    running,        \* UpdateManager._running
    frameCount,     \* UpdateManager._frameCount
    frameDelta,     \* UpdateManager._frameDelta
    lastDelta,      \* UpdateManager._lastDelta
    startTime,      \* UpdateManager._startTime
    elapsedTime,    \* UpdateManager._elapsedTime
    now,            \* the host clock: performance.now()
    pending,        \* callbacks requestAnimationFrame holds for the next frame
    uemitted,       \* events emitted by the last scheduler operation
    ulast           \* the last scheduler operation

loopVars == <<running, frameCount, frameDelta, lastDelta, startTime,
              elapsedTime, now, pending, uemitted, ulast>>

\* The event bus.
VARIABLES
    handlers,       \* the handlers registered for each event name, in order
    delivered,      \* the handler calls made by the last emit, in order
    blast           \* the last event bus operation and its arguments

busVars == <<handlers, delivered, blast>>

\* The ConfigManager.
VARIABLES
    data,           \* ConfigManager._data
    cemitted,       \* events emitted by the last ConfigManager operation
    clast           \* the last ConfigManager operation, arguments and result

cfgVars == <<data, cemitted, clast>>

vars == <<regVars, treeVars, loopVars, busVars, cfgVars>>

\* No snapshot / the part of the state before _destroy(x) that x could be
\* referred to from: the setup slots and x's own stage binding.
NoPre == <<>>
Pre(x) == <<setupViewport, setupStage, vstage[x]>>

\* threw: the call ended in an error instead of returning
Op(op, o, f) ==
    [op |-> op, obj |-> o, filter |-> f, pre |-> NoPre, threw |-> FALSE]

\* The caller of get holds the returned array until its next call.
NoArray == [alias |-> FALSE, arr |-> <<>>]

InitRegistry ==
    /\ created = {}
    /\ objid = [o \in Objects |-> NoId]
    /\ index = 0
    /\ store = <<>>
    /\ viewports = <<>>
    /\ stages = <<>>
    /\ vstage = [o \in Objects |-> Null]
    /\ setupViewport = Null
    /\ setupStage = Null
    /\ emitted = <<>>
    /\ got = NoArray
    /\ last = Op("init", Null, "none")
    /\ issued = {}

\* ------------------------------------------------------ Container tree

NumEntities == 4    \* identities 1..NumEntities of the objects of the tree

Entities == 1..NumEntities

\* The class of each identity: Container, another Entity (such as a
\* Sprite), or an object that is not an Entity.
TreeKindOf(e) ==
    CASE e % 6 = 5 -> "Entity"
      [] e % 6 = 4 -> "Other"
      [] OTHER     -> "Container"

IsContainer(e) == TreeKindOf(e) = "Container"

\* The options container c is constructed with: x, y, alpha and scale.
PropsOf(c) ==
    [x |-> 5 * c, y |-> 5 * c + 1, alpha |-> (c % 3) + 1, scale |-> (c % 2) + 2]

DefaultProps == [x |-> 0, y |-> 0, alpha |-> 1, scale |-> 1]

\* A tree operation on container c and object e: was tells where e was
\* before it, ok what the add hook reported.
TOp(op, c, e, was, ok) ==
    [op |-> op, c |-> c, e |-> e, was |-> was, ok |-> ok]

InitTree ==
    /\ built = {}
    /\ own = [e \in Entities |-> DefaultProps]
    /\ parent = [e \in Entities |-> Null]
    /\ children = [e \in Entities |-> <<>>]
    /\ derived = [e \in Entities |-> DefaultProps]
    /\ tlast = TOp("init", Null, Null, "free", TRUE)

\* The objects that exist: every constructed container and every object of
\* another class.
Existing == built \cup {e \in Entities : ~IsContainer(e)}

Tree == [parent |-> parent, children |-> children]

\* Where e is, seen from container c: with no parent, in c, or in another
\* container.
WasOf(c, e) ==
    IF parent[e] = Null THEN "free"
    ELSE IF parent[e] = c THEN "here" ELSE "elsewhere"

\* The children arrays given to a constructor: no, one or two existing
\* objects.
KidArrays ==
    {<<>>} \cup {<<a>> : a \in Existing}
           \cup {<<a, b>> : a \in Existing, b \in Existing}

IsEntityAny(e) == TRUE

\* object instanceof Entity
IsEntity(e) == TreeKindOf(e) # "Other"

RemoveChildKeepsParent(t, c, e) ==
    [t EXCEPT !.children[c] =
        SelectSeq(@, LAMBDA k : k # e)]

\* c.child.remove(e): e leaves c's child list and loses its parent; nothing
\* happens when c does not hold e.
RemoveChild(t, c, e) ==
    IF e \in Range(t.children[c])
    THEN [parent |-> [t.parent EXCEPT ![e] = Null],
          children |-> [t.children EXCEPT ![c] =
                            SelectSeq(@, LAMBDA k : k # e)]]
    ELSE t

LeaveOldParentNever(t, e) == t

\* if (object.parent) { object.parent.child.remove(object); }
LeaveOldParent(t, e) ==
    IF t.parent[e] # Null THEN RemoveChild(t, t.parent[e], e) ELSE t

SetParentNot(t, c, e) == t

\* object.parent = this;
SetParent(t, c, e) == [t EXCEPT !.parent[e] = c]

\* The hook this.child.onAdd of container c, called with object e: ok is
\* FALSE when the hook returns false.
OnAdd(t, c, e) ==
    IF IsEntity(e)
    THEN [ok |-> TRUE, t |-> SetParent(LeaveOldParent(t, e), c, e)]
    ELSE [ok |-> FALSE, t |-> t]

\* c.child.add(e): the hook runs first; unless it returns false, e is
\* appended to c's child list.
ChildAdd(t, c, e) ==
    LET r == OnAdd(t, c, e)
    IN  IF r.ok
        THEN [r.t EXCEPT !.children[c] = Append(@, e)]
        ELSE t

\* c.child.add(array): each element in turn.
RECURSIVE ChildAddAll(_, _, _)
ChildAddAll(t, c, kids) ==
    IF kids = <<>> THEN t
    ELSE ChildAddAll(ChildAdd(t, c, Head(kids)), c, Tail(kids))

\* new Container(game, options, kids). super(game, options) also registers the
\* container with the ObjectManager; the registry is followed by Spec and is
\* left as it is here.
NewContainer(c, kids) ==
    /\ c \in Entities \ built
    /\ IsContainer(c)
    /\ \A b \in Entities : (IsContainer(b) /\ b < c) => b \in built
    /\ kids \in KidArrays
    /\ built' = built \cup {c}
    /\ own' = [own EXCEPT ![c] = PropsOf(c)]
    /\ LET t == ChildAddAll(Tree, c, kids)
       IN  parent' = t.parent /\ children' = t.children
    /\ tlast' = TOp("new", c, Null, "free", TRUE)
    /\ UNCHANGED <<derived, regVars, loopVars, busVars, cfgVars>>

\* c.child.add(e)
Attach(c, e) ==
    /\ c \in built
    /\ e \in Existing
    /\ LET t == ChildAdd(Tree, c, e)
       IN  parent' = t.parent /\ children' = t.children
    /\ tlast' = TOp("attach", c, e, WasOf(c, e), OnAdd(Tree, c, e).ok)
    /\ UNCHANGED <<built, own, derived, regVars, loopVars, busVars, cfgVars>>

\* c.child.remove(e)
Detach(c, e) ==
    /\ c \in built
    /\ e \in Existing
    /\ LET t == RemoveChild(Tree, c, e)
       IN  parent' = t.parent /\ children' = t.children
    /\ tlast' = TOp("detach", c, e, WasOf(c, e), TRUE)
    /\ UNCHANGED <<built, own, derived, regVars, loopVars, busVars, cfgVars>>

\* Following parent references from e ends within n steps.
RECURSIVE EndsWithin(_, _)
EndsWithin(e, n) ==
    IF parent[e] = Null THEN TRUE
    ELSE IF n = 0 THEN FALSE
    ELSE EndsWithin(parent[e], n - 1)

Acyclic == \A e \in Entities : EndsWithin(e, NumEntities)

ComposeAllSums(o, pd) ==
    [x |-> o.x + pd.x, y |-> o.y + pd.y,
     alpha |-> o.alpha + pd.alpha, scale |-> o.scale + pd.scale]

\* derived.x += parent.derived.x; derived.y += parent.derived.y;
\* derived.alpha *= parent.derived.alpha; derived.scale *= parent.derived.scale
Compose(o, pd) ==
    [x |-> o.x + pd.x, y |-> o.y + pd.y,
     alpha |-> o.alpha * pd.alpha, scale |-> o.scale * pd.scale]

\* c.calculateDerived(), on the derived values d
calculateDerived(d, c) ==
    [d EXCEPT ![c] =
        IF parent[c] # Null /\ IsEntity(parent[c])
        THEN Compose(own[c], d[parent[c]])
        ELSE own[c]]

\* calculateDerived on every container of todo, each after its parent.
RECURSIVE CalculateAll(_, _)
CalculateAll(d, todo) ==
    IF todo = {} THEN d
    ELSE LET c == CHOOSE k \in todo : ~(parent[k] \in todo)
         IN  CalculateAll(calculateDerived(d, c), todo \ {c})

\* One top-down pass over the containers; on a cyclic tree the pass does
\* not return.
Pass ==
    /\ built # {}
    /\ Acyclic
    /\ derived' = CalculateAll(derived, built)
    /\ tlast' = TOp("pass", Null, Null, "free", TRUE)
    /\ UNCHANGED <<built, own, parent, children, regVars, loopVars, busVars, cfgVars>>

\* Building and rearranging the tree.
TreeNext ==
    \/ \E c \in Entities, kids \in KidArrays : NewContainer(c, kids)
    \/ \E c, e \in Entities : Attach(c, e)
    \/ \E c, e \in Entities : Detach(c, e)

\* Building the tree and running derived-transform passes over it.
DerivedNext ==
    \/ \E c \in Entities, kids \in KidArrays : NewContainer(c, kids)
    \/ \E c, e \in Entities : Attach(c, e)
    \/ Pass

\* -------------------------------------------------------- UpdateManager

MaxTime == 3        \* cap on the host clock
MaxFrames == 3      \* cap on UpdateManager._frameCount
MaxPending == 2     \* cap on the callbacks waiting for the next frame

\* The fields of the UpdateManager, and the callbacks it has scheduled.
Manager ==
    [running |-> running, frameCount |-> frameCount,
     frameDelta |-> frameDelta, lastDelta |-> lastDelta,
     startTime |-> startTime, elapsedTime |-> elapsedTime,
     pending |-> pending]

\* this._game.event.emit(name, ...): the event, with the manager as its
\* handlers find it.
Emit(name, u) == [name |-> name, at |-> u]

\* A scheduler operation; started holds the start time carried by the most
\* recent didStart, if there was one; carried the elapsed time carried by
\* the most recent update event, if there was one; inRun the same, but only
\* of the events since the most recent start.
UOp(op, started, carried, inRun) ==
    [op |-> op, started |-> started, carried |-> carried, inRun |-> inRun]

InitLoop ==
    /\ running = FALSE
    /\ frameCount = 0
    /\ frameDelta = 0
    /\ lastDelta = 0
    /\ startTime = 0
    /\ elapsedTime = 0
    /\ now = 0
    /\ pending = 0
    /\ uemitted = <<>>
    /\ ulast = UOp("init", <<>>, <<>>, <<>>)

\* if (this.running): UpdateManager has the field _running and the getter
\* isRunning, but no property named running, so the test reads undefined.
ThisRunning == FALSE

ScheduleNothing(p) == p

\* requestAnimationFrame(this._update): one more callback for the next
\* frame.
Schedule(p) == p + 1

\* UpdateManager._start
Start ==
    /\ pending < MaxPending
    /\ IF ThisRunning
       THEN /\ uemitted' = <<>>
            /\ ulast' = UOp("start", ulast.started, ulast.carried, ulast.inRun)
            /\ UNCHANGED <<running, startTime, elapsedTime, pending>>
       ELSE LET u1 == [Manager EXCEPT !.running = TRUE,
                                      !.startTime = now,
                                      !.elapsedTime = 0]
                u2 == [u1 EXCEPT !.pending = Schedule(@)]
            IN  /\ running' = u2.running
                /\ startTime' = u2.startTime
                /\ elapsedTime' = u2.elapsedTime
                /\ pending' = u2.pending
                /\ uemitted' = <<Emit("willStart", Manager),
                                 Emit("didStart", u2)>>
                /\ ulast' = UOp("start", <<u2.startTime>>, ulast.carried, <<>>)
    /\ UNCHANGED <<frameCount, frameDelta, lastDelta, now, regVars, treeVars, busVars, cfgVars>>

\* UpdateManager._stop
Stop ==
    /\ uemitted' = <<Emit("willStop", Manager)>>
    /\ running' = FALSE
    /\ ulast' = UOp("stop", ulast.started, ulast.carried, ulast.inRun)
    /\ UNCHANGED <<frameCount, frameDelta, lastDelta, startTime, elapsedTime,
                   now, pending, regVars, treeVars, busVars, cfgVars>>

SameFrameCount(n) == n

\* this._frameCount++
NextFrameCount(n) == n + 1

Drain(el, d) == el - d

\* this._elapsedTime += delta - this._startTime
Accumulate(el, d) == el + d

\* UpdateManager._update(delta), on the manager state u with the events ev
\* emitted so far.
update(u, ev, delta) ==
    LET u1 == [u EXCEPT !.frameCount = NextFrameCount(@),
                        !.elapsedTime = Accumulate(@, delta - u.startTime),
                        !.frameDelta = delta - u.lastDelta,
                        !.lastDelta = delta]
        ev1 == ev \o <<Emit("willUpdate", u), Emit("didUpdate", u1)>>
    IN  IF u1.running
        THEN [u |-> [u1 EXCEPT !.pending = Schedule(@)], ev |-> ev1]
        ELSE [u |-> u1, ev |-> Append(ev1, Emit("didStop", u1))]

\* The k callbacks of one frame, one after the other, all with the frame's
\* timestamp.
RECURSIVE RunCallbacks(_, _, _, _)
RunCallbacks(u, ev, delta, k) ==
    IF k = 0 THEN [u |-> u, ev |-> ev]
    ELSE LET r == update(u, ev, delta)
         IN  RunCallbacks(r.u, r.ev, delta, k - 1)

\* The host runs a frame: every callback scheduled before it is called with
\* the frame's timestamp; callbacks scheduled meanwhile wait for the next
\* frame.
Frame ==
    /\ pending > 0
    /\ frameCount + pending <= MaxFrames
    /\ LET r == RunCallbacks([Manager EXCEPT !.pending = 0], <<>>, now, pending)
       IN  /\ frameCount' = r.u.frameCount
           /\ elapsedTime' = r.u.elapsedTime
           /\ frameDelta' = r.u.frameDelta
           /\ lastDelta' = r.u.lastDelta
           /\ pending' = r.u.pending
           /\ uemitted' = r.ev
    /\ ulast' = UOp("frame", ulast.started, <<elapsedTime'>>, <<elapsedTime'>>)
    /\ UNCHANGED <<running, startTime, now, regVars, treeVars, busVars, cfgVars>>

\* Time passes on the host clock.
Advance ==
    /\ now < MaxTime
    /\ now' = now + 1
    /\ uemitted' = <<>>
    /\ ulast' = UOp("advance", ulast.started, ulast.carried, ulast.inRun)
    /\ UNCHANGED <<running, frameCount, frameDelta, lastDelta, startTime,
                   elapsedTime, pending, regVars, treeVars, busVars, cfgVars>>

LoopNext == Start \/ Stop \/ Frame \/ Advance

\* ------------------------------------------------------------ Event bus

NumHandlers == 2    \* handler functions 1..NumHandlers

HandlerIds == 1..NumHandlers
EventNames == {"x", "y"}
Payloads == {"p", "q"}

BOp(op, name, handler, payload, who, whom, before) ==
    [op |-> op, name |-> name, handler |-> handler, payload |-> payload,
     who |-> who, whom |-> whom, before |-> before]

InitBus ==
    /\ handlers = [n \in EventNames |-> <<>>]
    /\ delivered = <<>>
    /\ blast = BOp("init", "x", Null, "p", Null, Null, <<>>)

\* on(name, handler), with a handler not yet registered for name
on(n, h) ==
    /\ ~(h \in Range(handlers[n]))
    /\ handlers' = [handlers EXCEPT ![n] = Append(@, h)]
    /\ delivered' = <<>>
    /\ blast' = BOp("on", n, h, "p", Null, Null, <<>>)
    /\ UNCHANGED <<regVars, treeVars, loopVars, cfgVars>>

\* The list without handler h.
RemoveHandler(list, h) == SelectSeq(list, LAMBDA k : k # h)

\* off(name, handler)
off(n, h) ==
    /\ handlers' = [handlers EXCEPT ![n] = RemoveHandler(@, h)]
    /\ delivered' = <<>>
    /\ blast' = BOp("off", n, h, "p", Null, Null, <<>>)
    /\ UNCHANGED <<regVars, treeVars, loopVars, cfgVars>>

HandlersOfAll(hs, n) == hs["x"] \o hs["y"]

\* The handlers an emit of n is going to call: those registered for n when
\* it begins.
HandlersOf(hs, n) == hs[n]

AfterLive(rest, removed) == RemoveHandler(rest, removed)

\* The handlers still to be called in this pass after one of them removed a
\* handler: the pass goes over the list as it was when the emit began.
After(rest, removed) == rest

\* The calls of one emission pass: each handler of todo is called with the
\* payload; the handler who removes the handler whom when it is called.
RECURSIVE RunHandlers(_, _, _, _, _, _, _)
RunHandlers(todo, live, n, p, who, whom, out) ==
    IF todo = <<>> THEN [live |-> live, out |-> out]
    ELSE LET h == Head(todo)
             call == [handler |-> h, name |-> n, payload |-> p]
         IN  IF h = who
             THEN RunHandlers(After(Tail(todo), whom), RemoveHandler(live, whom),
                              n, p, who, whom, Append(out, call))
             ELSE RunHandlers(Tail(todo), live, n, p, who, whom,
                              Append(out, call))

\* emit(name, payload), during which handler who (if any) calls
\* off(name, whom)
emit(n, p, who, whom) ==
    /\ (who = Null) = (whom = Null)
    /\ LET r == RunHandlers(HandlersOf(handlers, n), handlers[n], n, p,
                            who, whom, <<>>)
       IN  /\ handlers' = [handlers EXCEPT ![n] = r.live]
           /\ delivered' = r.out
    /\ blast' = BOp("emit", n, Null, p, who, whom, handlers[n])
    /\ UNCHANGED <<regVars, treeVars, loopVars, cfgVars>>

BusNext ==
    \/ \E n \in EventNames, h \in HandlerIds : on(n, h)
    \/ \E n \in EventNames, h \in HandlerIds : off(n, h)
    \/ \E n \in EventNames, p \in Payloads :
            \E who, whom \in HandlerIds \cup {Null} : emit(n, p, who, whom)

\* -------------------------------------------------------- ConfigManager

\* The keys used: the empty string, a key of the default configuration,
\* and a key that is not in it.
CfgKeys == {"", "debug", "extra"}
CfgValues == {"false", "true"}

CfgNull == "null"               \* JavaScript null
Undefined == "undefined"        \* JavaScript undefined (an argument left out)

\* static defaultConfig (two of its keys)
defaultConfig == [debug |-> "false", w |-> "640"]

\* The objects given to set(object).
CfgObjects ==
    UNION {[K -> CfgValues] : K \in SUBSET CfgKeys}

\* What an operation returns: a single value, or a configuration map.
RetValue(v) == [kind |-> "value", value |-> v, map |-> <<>>]
RetMap(d) == [kind |-> "map", value |-> Undefined, map |-> d]

COp(op, key, value, object, ret) ==
    [op |-> op, key |-> key, value |-> value, object |-> object, ret |-> ret]

InitConfig ==
    /\ data = defaultConfig
    /\ cemitted = <<>>
    /\ clast = COp("init", Undefined, Undefined, <<>>, RetValue(Undefined))

\* this._data[key] = value
Put(d, key, value) ==
    [k \in DOMAIN d \cup {key} |-> IF k = key THEN value ELSE d[k]]

\* {...this._data, ...key}
Merge(d, obj) ==
    [k \in DOMAIN d \cup DOMAIN obj |-> IF k \in DOMAIN obj THEN obj[k] ELSE d[k]]

\* delete this._data[key]
Drop(d, key) == [k \in DOMAIN d \ {key} |-> d[k]]

NullifyByDrop(d, key) == Drop(d, key)

\* this._data[key] = null
Nullify(d, key) == Put(d, key, CfgNull)

\* this.game.event.emit("didSet", {config, type, key, value})
EmitDidSet(d, type, key, value, object) ==
    << [name |-> "didSet", config |-> d, type |-> type, key |-> key,
        value |-> value, object |-> object] >>

\* getValue(object, key, defaultValue): the value of the key, or the default
\* when the key is not found
getValue(d, key, defaultValue) ==
    IF key \in DOMAIN d THEN d[key] ELSE defaultValue

\* !key
IsFalsy(key) == key \in {"", Undefined}

\* ConfigManager.get(key, defaultValue)
ConfigGet(d, key, defaultValue) ==
    IF IsFalsy(key) THEN RetMap(d)
    ELSE RetValue(getValue(d, key, defaultValue))

\* ConfigManager.keys()
keys(d) == DOMAIN d

\* ConfigManager.set(key, value) with a string key
set(key, value) ==
    /\ data' = Put(data, key, value)
    /\ cemitted' = EmitDidSet(data', "key-value", key, value, <<>>)
    /\ clast' = COp("set", key, value, <<>>, RetValue(value))
    /\ UNCHANGED <<regVars, treeVars, loopVars, busVars>>

\* ConfigManager.set(object)
setAll(obj) ==
    /\ data' = Merge(data, obj)
    /\ cemitted' = EmitDidSet(data', "object", Undefined, Undefined, obj)
    /\ clast' = COp("setAll", Undefined, Undefined, obj, RetMap(obj))
    /\ UNCHANGED <<regVars, treeVars, loopVars, busVars>>

\* ConfigManager.get(key, defaultValue)
get(key, defaultValue) ==
    /\ clast' = COp("get", key, defaultValue, <<>>,
                    ConfigGet(data, key, defaultValue))
    /\ cemitted' = <<>>
    /\ UNCHANGED <<data, regVars, treeVars, loopVars, busVars>>

\* ConfigManager.remove(key)
remove(key) ==
    /\ IF ~(key \in DOMAIN data)
       THEN /\ clast' = COp("remove", key, Undefined, <<>>, RetValue(CfgNull))
            /\ UNCHANGED data
       ELSE /\ clast' = COp("remove", key, Undefined, <<>>, RetValue(data[key]))
            /\ data' = Nullify(data, key)
    /\ cemitted' = <<>>
    /\ UNCHANGED <<regVars, treeVars, loopVars, busVars>>

\* ConfigManager.delete(key)
delete(key) ==
    /\ IF ~(key \in DOMAIN data)
       THEN /\ clast' = COp("delete", key, Undefined, <<>>, RetValue(CfgNull))
            /\ UNCHANGED data
       ELSE /\ clast' = COp("delete", key, Undefined, <<>>, RetValue(data[key]))
            /\ data' = Drop(data, key)
    /\ cemitted' = <<>>
    /\ UNCHANGED <<regVars, treeVars, loopVars, busVars>>

ConfigNext ==
    \/ \E key \in CfgKeys, value \in CfgValues : set(key, value)
    \/ \E obj \in CfgObjects : setAll(obj)
    \/ \E key \in CfgKeys \cup {Undefined}, d \in {Undefined, "true"} : get(key, d)
    \/ \E key \in CfgKeys : remove(key)
    \/ \E key \in CfgKeys : delete(key)

Init == InitRegistry /\ InitTree /\ InitLoop /\ InitBus /\ InitConfig

\* ------------------------------------------------------ ObjectManager.add

\* a duplicate check that never finds the object
IncludesNever(arr, o) == FALSE

\* this._store.includes(object): membership by identity
Includes(arr, o) == \E i \in 1..Len(arr) : arr[i] = o

\* the value of this._index++ : the id given to the object
NewIdFromLength == Len(store)

NewId == index

\* if (cond) arr.push(object)
PushAlways(arr, cond, o) == Append(arr, o)

PushIf(arr, cond, o) == IF cond THEN Append(arr, o) ELSE arr

AddRejected(o) ==
    /\ UNCHANGED <<objid, index, store, viewports, stages, issued>>

AddAccepted(o) ==
    /\ index < MaxIndex
    /\ objid' = [objid EXCEPT ![o] = NewId]
    /\ index' = index + 1
    /\ store' = Append(store, o)
    /\ viewports' = PushIf(viewports, IsViewport(o), o)
    /\ stages' = PushIf(stages, IsStage(o), o)
    /\ issued' = issued \cup {NewId}

\* the body of ObjectManager.add(object)
register(o) ==
    /\ IF ~IsBase(o) THEN AddRejected(o)
       ELSE IF Includes(store, o) THEN AddRejected(o)
       ELSE AddAccepted(o)
    /\ emitted' = <<>>
    /\ got' = NoArray
    /\ UNCHANGED <<vstage, setupViewport, setupStage>>
    /\ UNCHANGED <<treeVars, loopVars, busVars, cfgVars>>

\* ObjectManager.add(object)
add(o) ==
    /\ register(o)
    /\ last' = Op("add", o, "none")

\* new X(game) for a class X extending Base: the constructor registers this
\* (objects of one class are interchangeable: they are constructed in the
\* order of their numbers)
Construct(o) ==
    /\ o \in Objects \ created
    /\ IsBase(o)
    /\ \A p \in Objects : (p < o /\ KindOf(p) = KindOf(o)) => p \in created
    /\ created' = created \cup {o}
    /\ add(o)

\* game.object.add(object) called directly on an existing value
Add(o) ==
    /\ o \in created \/ ~IsBase(o)
    /\ UNCHANGED created
    /\ add(o)

\* ------------------------------------------------- ObjectManager._destroy

\* arr.filter((item) => object._id !== item._id): drops the items whose id
\* equals the id of the destroyed object
FilterKeepAll(arr, x) == arr

FilterOutAll(arr, x) == <<>>

FilterOut(arr, x) ==
    LET Keep(item) == objid[x] # objid[item] IN SelectSeq(arr, Keep)

\* if (slot === object) slot = null
ClearSlotNever(slot, x) == slot

ClearSlot(slot, x) == IF slot = x THEN Null ELSE slot

\* Viewport.setStage(stage): the viewport's stage binding becomes stage
SetStageOf(bindings, v, s) == [bindings EXCEPT ![v] = s]

\* this._viewports.forEach((viewport) => { if (viewport.stage === object)
\* viewport.setStage(null) }), over the array in order
RECURSIVE UnbindAll(_, _, _)
UnbindAll(bindings, vps, x) ==
    IF vps = <<>> THEN bindings
    ELSE UnbindAll(IF bindings[Head(vps)] = x
                     THEN SetStageOf(bindings, Head(vps), Null)
                     ELSE bindings,
                   Tail(vps), x)

\* this.game.event.emit("didDestroy", {object}): the handlers run now, and
\* what they can observe is the state at this point of _destroy
NoEmit(x, st, vps, sgs, bindings, slots) == <<>>

EmitDidDestroy(x, st, vps, sgs, bindings, slots) ==
    << [name |-> "didDestroy",
        object |-> x,
        sawStore |-> st,
        sawLists |-> Range(vps) \cup Range(sgs),
        sawBound |-> {v \in Range(vps) : bindings[v] = x},
        sawSlots |-> slots] >>

\* ObjectManager._destroy(object)
Destroy(x) ==
    /\ x \in created \/ ~IsBase(x)
    /\ LET store1 == FilterOut(store, x)
           viewports1 == IF IsViewport(x) THEN FilterOut(viewports, x)
                         ELSE viewports
           setupViewport1 == IF IsViewport(x) THEN ClearSlot(setupViewport, x)
                             ELSE setupViewport
           stages1 == IF IsStage(x) THEN FilterOut(stages, x) ELSE stages
           vstage1 == IF IsStage(x) THEN UnbindAll(vstage, viewports1, x)
                      ELSE vstage
           setupStage1 == IF IsStage(x) THEN ClearSlot(setupStage, x)
                          ELSE setupStage
       IN /\ store' = store1
          /\ viewports' = viewports1
          /\ setupViewport' = setupViewport1
          /\ stages' = stages1
          /\ vstage' = vstage1
          /\ setupStage' = setupStage1
          /\ emitted' = EmitDidDestroy(x, store1, viewports1, stages1, vstage1,
                                       {setupViewport1, setupStage1})
    /\ got' = NoArray
    /\ last' = [Op("destroy", x, "none") EXCEPT !.pre = Pre(x)]
    /\ UNCHANGED <<created, objid, index, issued>>
    /\ UNCHANGED <<treeVars, loopVars, busVars, cfgVars>>

\* ------------------------------------------------------ Viewport and setup

\* viewport.setStage(stage) with a stage of the registry, or null
SetStage(v, s) ==
    /\ v \in created /\ IsViewport(v)
    /\ s \in Range(stages) \cup {Null}
    /\ vstage' = SetStageOf(vstage, v, s)
    /\ emitted' = <<>>
    /\ got' = NoArray
    /\ last' = Op("setStage", Null, "none")
    /\ UNCHANGED <<created, objid, index, store, viewports, stages,
                   setupViewport, setupStage, issued>>
    /\ UNCHANGED <<treeVars, loopVars, busVars, cfgVars>>

\* SetupManager: the game's default viewport and stage are stored in
\* game.setup.viewport and game.setup.stage
Setup(v, s) ==
    /\ v \in Range(viewports) \cup {Null}
    /\ s \in Range(stages) \cup {Null}
    /\ <<v, s>> # <<setupViewport, setupStage>>
    /\ setupViewport' = v
    /\ setupStage' = s
    /\ emitted' = <<>>
    /\ got' = NoArray
    /\ last' = Op("setup", Null, "none")
    /\ UNCHANGED <<created, objid, index, store, viewports, stages, vstage,
                   issued>>
    /\ UNCHANGED <<treeVars, loopVars, busVars, cfgVars>>

\* ------------------------------------------------------ ObjectManager.get

\* the filter callbacks a caller passes to get
Accepts(f, o) ==
    CASE f = "stages"    -> IsStage(o)
      [] f = "viewports" -> IsViewport(o)
      [] f = "plain"     -> ~IsStage(o) /\ ~IsViewport(o)
      [] OTHER           -> TRUE

\* a get that hands out the store array itself
GetStoreItself(f) ==
    [alias |-> TRUE, arr |-> store]

\* get(filter): [...this._store.filter(filter)] or [...this._store]
GetResult(f) ==
    LET Keep(o) == Accepts(f, o)
    IN [alias |-> FALSE,
        arr |-> IF f # "none" THEN SelectSeq(store, Keep) ELSE store]

Get(f) ==
    /\ got' = GetResult(f)
    /\ emitted' = <<>>
    /\ last' = Op("get", Null, f)
    /\ UNCHANGED <<created, objid, index, store, viewports, stages, vstage,
                   setupViewport, setupStage, issued>>
    /\ UNCHANGED <<treeVars, loopVars, busVars, cfgVars>>

Reverse(s) == [i \in 1..Len(s) |-> s[Len(s) + 1 - i]]

\* The caller changes the array it got (push, shift or reverse) and lets go
\* of it. The store changes with it exactly when that array is the store
\* array itself.
MutateGot(kind, o) ==
    /\ last.op = "get"
    /\ LET arr1 == CASE kind = "push"  -> Append(got.arr, o)
                     [] kind = "shift" -> IF got.arr = <<>> THEN got.arr
                                          ELSE Tail(got.arr)
                     [] OTHER          -> Reverse(got.arr)
       IN /\ arr1 # got.arr
          /\ store' = IF got.alias THEN arr1 ELSE store
    /\ got' = NoArray
    /\ emitted' = <<>>
    /\ last' = Op("mutate", Null, "none")
    /\ UNCHANGED <<created, objid, index, viewports, stages, vstage,
                   setupViewport, setupStage, issued>>
    /\ UNCHANGED <<treeVars, loopVars, busVars, cfgVars>>

\* ------------------------------------------- calls with other arguments

\* The values other than a Game instance that a constructor may be given.
NotGames == {"null", "object"}

IsGameAny(g) == TRUE

\* game instanceof Whirl.Game._class
IsGame(g) == g = "game"

\* new X(g) for a class X extending Base, with g not a Game instance
ConstructIn(o, g) ==
    /\ o \in Objects \ created
    /\ IsBase(o)
    /\ g \in NotGames
    /\ IF ~IsGame(g)
       THEN \* throw new Error(...): no object comes into being
            UNCHANGED <<created, objid, index, store, viewports, stages,
                        vstage, setupViewport, setupStage, emitted, got,
                        issued, treeVars, loopVars, busVars, cfgVars>>
       ELSE /\ created' = created \cup {o}
            /\ register(o)
    /\ last' = [Op("construct", o, "none") EXCEPT !.threw = ~IsGame(g)]

\* game.object.add(null) or add(undefined): null instanceof Base is false
AddNothing ==
    /\ AddRejected(Null)
    /\ emitted' = <<>>
    /\ got' = NoArray
    /\ last' = Op("add", Null, "none")
    /\ UNCHANGED <<created, vstage, setupViewport, setupStage>>
    /\ UNCHANGED <<treeVars, loopVars, busVars, cfgVars>>

\* game.object._destroy(null) or _destroy(undefined): the filter callback
\* reads object._id, which is a TypeError, for the first item of the store;
\* on an empty store the callback never runs and the call goes through.
DestroyNothing ==
    /\ IF store # <<>>
       THEN /\ UNCHANGED <<store, emitted>>
            /\ last' = [Op("destroy", Null, "none") EXCEPT !.threw = TRUE]
       ELSE /\ store' = <<>>
            /\ emitted' = EmitDidDestroy(Null, <<>>, viewports, stages, vstage,
                                         {setupViewport, setupStage})
            /\ last' = Op("destroy", Null, "none")
    /\ got' = NoArray
    /\ UNCHANGED <<created, objid, index, viewports, stages, vstage,
                   setupViewport, setupStage, issued>>
    /\ UNCHANGED <<treeVars, loopVars, busVars, cfgVars>>

\* ------------------------------- objects of another game instance

\* The classes of the objects of another game that are handed to _destroy.
ForeignClasses == {"Base", "Viewport", "Stage"}

\* The identity of the object of another game whose _id is id: it is none of
\* the objects of this game. Its manager issues ids from 0 as well.
ForeignObject(id) == 0 - (id + 2)

\* filter((item) => object._id !== item._id), for an object with that _id
FilterOutId(arr, id) ==
    LET Keep(item) == id # objid[item] IN SelectSeq(arr, Keep)

\* ObjectManager._destroy(object) with an object that another game's manager
\* registered under id: no viewport is bound to it and no setup slot holds
\* it, so only the three filters can change anything.
DestroyForeign(cls, id) ==
    /\ id \in 0..(MaxIndex - 1)
    /\ LET store1 == FilterOutId(store, id)
           viewports1 == IF cls = "Viewport" THEN FilterOutId(viewports, id)
                         ELSE viewports
           stages1 == IF cls = "Stage" THEN FilterOutId(stages, id)
                      ELSE stages
       IN /\ store' = store1
          /\ viewports' = viewports1
          /\ stages' = stages1
          /\ emitted' = EmitDidDestroy(ForeignObject(id), store1, viewports1,
                                       stages1, vstage,
                                       {setupViewport, setupStage})
    /\ got' = NoArray
    /\ last' = Op("destroy", ForeignObject(id), "none")
    /\ UNCHANGED <<created, objid, index, vstage, setupViewport, setupStage,
                   issued>>
    /\ UNCHANGED <<treeVars, loopVars, busVars, cfgVars>>

\* ------------------------------------- containers that are registered

\* A Stage is a Container: the stages of the registry are the first
\* containers of the tree, container e being the object AsObject(e).
AsObject(e) == 3 * e - 2

Holders ==
    {e \in Entities : IsContainer(e) /\ AsObject(e) \in Objects
                        /\ IsStage(AsObject(e))}

\* The rest of the constructor of a stage that the Base constructor has
\* registered: the child list with the children given.
StageChildren(e, kids) ==
    /\ e \in Holders
    /\ AsObject(e) \in created
    /\ NewContainer(e, kids)

\* Stages are constructed with children, given further children, and
\* destroyed.
CascadeNext ==
    \/ \E o \in Objects : Construct(o)
    \/ \E e \in Entities, kids \in KidArrays : StageChildren(e, kids)
    \/ \E c, e \in Entities : Attach(c, e)
    \/ \E x \in Objects : Destroy(x)

\* ------------------------------------------------------------ behaviours

Next ==
    \/ \E o \in Objects : Construct(o)
    \/ \E o \in Objects : Add(o)
    \/ \E x \in Objects : Destroy(x)
    \/ \E v \in Objects, s \in Objects \cup {Null} : SetStage(v, s)
    \/ \E v \in Objects \cup {Null}, s \in Objects \cup {Null} : Setup(v, s)
    \/ \E f \in Filters : Get(f)
    \/ \E k \in {"push", "shift", "reverse"}, o \in Objects : MutateGot(k, o)

Spec == Init /\ [][Next]_vars

\* The registry with the calls that pass no object or no game as well.
MisuseNext ==
    \/ Next
    \/ \E o \in Objects, g \in NotGames : ConstructIn(o, g)
    \/ AddNothing
    \/ DestroyNothing

SpecMisuse == Init /\ [][MisuseNext]_vars

\* The registry, handed objects of another game instance as well.
ForeignNext ==
    \/ Next
    \/ \E cls \in ForeignClasses, id \in 0..(MaxIndex - 1) :
            DestroyForeign(cls, id)

SpecForeign == Init /\ [][ForeignNext]_vars

\* The registry together with the child lists of its stages.
SpecCascade == Init /\ [][CascadeNext]_vars

\* The Container tree on its own.
SpecTree == Init /\ [][TreeNext]_vars

\* The Container tree under derived-transform passes.
SpecDerived == Init /\ [][DerivedNext]_vars

\* The UpdateManager on its own.
SpecLoop == Init /\ [][LoopNext]_vars

\* The UpdateManager on a host that runs every frame for which a callback
\* is scheduled.
SpecLoopFair == Init /\ [][LoopNext]_vars /\ WF_vars(Frame)

\* The event bus on its own.
SpecBus == Init /\ [][BusNext]_vars

\* The ConfigManager on its own.
SpecConfig == Init /\ [][ConfigNext]_vars

\* ---------------------------------------------------------------- claims

\* o went into the store in this step: the add of o succeeded
Added(o) == ~(o \in Range(store)) /\ o \in Range(store')

\* x is in the result of get(), in the stage list or in the viewport list
InRegistry(x) ==
    x \in Range(GetResult("none").arr) \cup Range(stages) \cup Range(viewports)

NoDuplicates(arr) ==
    \A i, j \in 1..Len(arr) : i # j => arr[i] # arr[j]

\* C1: every successful add assigns an id strictly greater than every id
\* the manager assigned before, also after objects were destroyed, so no
\* two objects registered by the manager share an id.
C1_IdsStrictlyIncreasing ==
    [][\A o \in Objects : Added(o) =>
          /\ objid'[o] # NoId
          /\ \A i \in issued : objid'[o] > i
          /\ \A p \in Objects \ {o} : objid'[p] # objid'[o]]_vars

C1_Witness ==
    /\ last.op = "add"
    /\ store # <<>>
    /\ store[Len(store)] = last.obj
    /\ Len(store) < Cardinality(issued)

\* C2: an add of a value that does not inherit from Base, or of an object
\* already in the store, leaves the live set, the stage list, the viewport
\* list, the id counter and every id unchanged.
C2_RejectedAddChangesNothing ==
    [][\A o \in Objects :
          (last'.op = "add" /\ last'.obj = o
              /\ (~IsBase(o) \/ o \in Range(store)))
          => UNCHANGED <<store, stages, viewports, index, objid>>]_vars

C2_Witness ==
    /\ last.op = "add"
    /\ last.obj \in Range(store)
    /\ objid[last.obj] < index - 1

\* C3: after _destroy(x), x is not in get() nor in the stage or viewport
\* list, and it stays out of them until an add of x.
C3_DestroyedStaysOut ==
    [][\A x \in Objects :
          /\ (last'.op = "destroy" /\ last'.obj = x) => ~InRegistry(x)'
          /\ (~InRegistry(x) /\ InRegistry(x)')
                => (last'.op = "add" /\ last'.obj = x)]_vars

C3_Witness ==
    \E x \in created :
        /\ IsStage(x)
        /\ ~InRegistry(x)
        /\ last.op = "add"
        /\ last.obj # x

\* C4: every viewport of the registry is bound to no stage or to a stage
\* of the registry's stage list.
C4_BoundStageIsRegistered ==
    \A v \in Range(viewports) :
        vstage[v] = Null \/ vstage[v] \in Range(stages)

\* C5: after _destroy(v) of a viewport v that was bound to a stage, v is
\* bound to no stage.
C5_DestroyedViewportUnbound ==
    (last.op = "destroy" /\ IsViewport(last.obj)) => vstage[last.obj] = Null

\* C6: after _destroy(x) a setup slot that referred to x is null, and a
\* slot that referred to another object (or to none) is unchanged.
C6_SetupSlotsCleared ==
    [][\A x \in Objects : (last'.op = "destroy" /\ last'.obj = x) =>
          /\ setupViewport = x => setupViewport' = Null
          /\ setupStage = x => setupStage' = Null
          /\ setupViewport # x => setupViewport' = setupViewport
          /\ setupStage # x => setupStage' = setupStage]_vars

C6_Witness ==
    /\ last.op = "destroy"
    /\ last.pre[1] = last.obj
    /\ last.pre[2] # Null
    /\ setupStage = last.pre[2]

\* C7: each _destroy(x) emits exactly one didDestroy carrying x, and its
\* handlers see x in no list of the registry, no registered viewport bound
\* to x and no setup slot referring to x; no other operation emits it.
C7_DidDestroyAfterRemoval ==
    IF last.op = "destroy"
    THEN /\ Len(emitted) = 1
         /\ emitted[1].name = "didDestroy"
         /\ emitted[1].object = last.obj
         /\ ~(last.obj \in Range(emitted[1].sawStore))
         /\ ~(last.obj \in emitted[1].sawLists)
         /\ emitted[1].sawBound = {}
         /\ ~(last.obj \in emitted[1].sawSlots)
    ELSE emitted = <<>>

C7_Witness ==
    /\ last.op = "destroy"
    /\ IsStage(last.obj)
    /\ last.pre[2] = last.obj
    /\ \E v \in Range(viewports) : vstage[v] = Null
    /\ Len(emitted) = 1

\* C8: the id an object got at its first registration is its id in every
\* later state.
C8_IdNeverChanges ==
    [][\A o \in Objects : objid[o] # NoId => objid'[o] = objid[o]]_vars

C10_GetReturnsFreshCopy ==
    [][/\ \A f \in Filters : (last'.op = "get" /\ last'.filter = f) =>
             /\ Range(got'.arr) = {o \in Range(store) : Accepts(f, o)}
             /\ \A i, j \in 1..Len(got'.arr) :
                   i < j => objid[got'.arr[i]] < objid[got'.arr[j]]
       /\ last'.op = "mutate" =>
             /\ store' = store
             /\ \A f \in Filters : GetResult(f)' = GetResult(f)]_vars

C10_Witness ==
    /\ last.op = "mutate"
    /\ Len(store) >= 2

\* C11: add, get and _destroy return normally for every argument, also
\* for null and undefined.
C11_RegistryNeverRaises ==
    last.op \in {"add", "get", "destroy"} => ~last.threw

\* C12: constructing a Base-derived object with a value that is not a Game
\* ends in an error and registers nothing; constructing it with the game
\* leaves it with an id, in the live set and in the list of its class.
C12_ConstructorRegisters ==
    [][\A o \in Objects :
          /\ (last'.op = "construct" /\ last'.obj = o) =>
                /\ last'.threw
                /\ UNCHANGED <<created, objid, index, store, viewports,
                               stages>>
          /\ (~(o \in created) /\ o \in created') =>
                /\ ~last'.threw
                /\ objid'[o] # NoId
                /\ o \in Range(store')
                /\ IsStage(o) => o \in Range(stages')
                /\ IsViewport(o) => o \in Range(viewports')]_vars

C12_Witness ==
    /\ last.op = "construct"
    /\ last.threw
    /\ ~(last.obj \in created)
    /\ \E s \in Range(stages) : objid[s] # NoId

Count(arr, e) == Cardinality({i \in 1..Len(arr) : arr[i] = e})

\* C13: when entity e is a child of container A and is added to a different
\* container B, afterwards A's child list does not contain e, B's contains
\* e exactly once, and e.parent is B.
C13_ReattachMoves ==
    [][\A a, b, e \in Entities :
        (/\ tlast'.op = "attach" /\ tlast'.c = b /\ tlast'.e = e
         /\ TreeKindOf(e) # "Other"
         /\ parent[e] = a /\ a # b /\ e \in Range(children[a]))
        => (/\ ~(e \in Range(children'[a]))
            /\ Count(children'[b], e) = 1
            /\ parent'[e] = b)]_vars

C13_Witness ==
    /\ tlast.op = "attach"
    /\ tlast.was = "elsewhere"
    /\ parent[tlast.e] = tlast.c
    /\ \E a \in built \ {tlast.c} : children[a] # <<>>

\* C14: each entity is in the child list of at most one container and at
\* most once, and it is in container c's child list exactly when its parent
\* reference is c.
C14_OneParentOneSlot ==
    \A e \in Entities :
        /\ \A c \in Entities : Count(children[c], e) <= 1
        /\ \A c, d \in Entities :
                (e \in Range(children[c]) /\ e \in Range(children[d])) => c = d
        /\ \A c \in Entities : e \in Range(children[c]) <=> parent[e] = c

C14_Witness ==
    /\ tlast.op = "attach"
    /\ tlast.was = "here"
    /\ Len(children[tlast.c]) = 2
    /\ \E c \in built \ {tlast.c} : children[c] # <<>>

\* C15: container.child.remove(e) removes e from that container's child
\* list and clears e.parent; when the container does not hold e, neither a
\* child list nor a parent reference changes.
C15_DetachClears ==
    [][\A c, e \in Entities :
        (tlast'.op = "detach" /\ tlast'.c = c /\ tlast'.e = e)
        => IF e \in Range(children[c])
           THEN /\ ~(e \in Range(children'[c]))
                /\ parent'[e] = Null
                /\ \A k \in Entities \ {e} : parent'[k] = parent[k]
                /\ \A d \in Entities \ {c} : children'[d] = children[d]
           ELSE UNCHANGED <<parent, children>>]_vars

C15_Witness ==
    /\ tlast.op = "detach"
    /\ tlast.was = "here"
    /\ parent[tlast.e] = Null
    /\ children[tlast.c] # <<>>

\* C16: the parent relation is acyclic in every reachable state: following
\* parent references from any entity ends at an entity with no parent.
C16_ParentRelationAcyclic ==
    \A e \in Entities : EndsWithin(e, NumEntities)

\* C17: attaching an object that is not an Entity is rejected: the add hook
\* returns false, the container's child list is unchanged, and no parent
\* reference of any object is changed.
C17_NonEntityRejected ==
    [][(tlast'.op = "attach" /\ TreeKindOf(tlast'.e) = "Other")
        => (/\ ~tlast'.ok
            /\ children' = children
            /\ parent' = parent)]_vars

C17_Witness ==
    /\ tlast.op = "attach"
    /\ TreeKindOf(tlast.e) = "Other"
    /\ ~tlast.ok
    /\ children[tlast.c] # <<>>

\* The container c followed by its ancestors, nearest first.
RECURSIVE SelfAndAncestors(_, _)
SelfAndAncestors(c, n) ==
    IF parent[c] = Null \/ n = 0 THEN <<c>>
    ELSE <<c>> \o SelfAndAncestors(parent[c], n - 1)

\* The sum and the product of one property over the containers of a chain.
RECURSIVE SumOver(_, _)
SumOver(chain, field) ==
    IF chain = <<>> THEN 0
    ELSE own[Head(chain)][field] + SumOver(Tail(chain), field)

RECURSIVE ProductOver(_, _)
ProductOver(chain, field) ==
    IF chain = <<>> THEN 1
    ELSE own[Head(chain)][field] * ProductOver(Tail(chain), field)

\* C18: after a top-down pass every container's derived x and y are the
\* sums of the position x and y of itself and all its ancestors, and its
\* derived alpha and scale are the products of their alpha and scale; a
\* container with no parent gets its own position, alpha and scale.
C18_DerivedComposes ==
    tlast.op = "pass" =>
        \A c \in built :
            LET chain == SelfAndAncestors(c, NumEntities)
            IN  /\ derived[c].x = SumOver(chain, "x")
                /\ derived[c].y = SumOver(chain, "y")
                /\ derived[c].alpha = ProductOver(chain, "alpha")
                /\ derived[c].scale = ProductOver(chain, "scale")
                /\ (parent[c] = Null => derived[c] = own[c])

C18_Witness ==
    /\ tlast.op = "pass"
    /\ \E c \in built :
        /\ parent[c] # Null
        /\ parent[parent[c]] # Null
        /\ derived[c].x = own[c].x + own[parent[c]].x + own[parent[parent[c]]].x
    /\ \E r \in built : parent[r] = Null /\ derived[r] = own[r]

Names(ev) == [i \in 1..Len(ev) |-> ev[i].name]

\* C19: UpdateManager start is a no-op when the scheduler is already
\* running: it emits no willStart or didStart, schedules no additional tick,
\* and leaves the start time, elapsed time and frame count unchanged.
C19_StartWhileRunningIsNoOp ==
    [][(ulast'.op = "start" /\ running)
        => (/\ uemitted' = <<>>
            /\ pending' = pending
            /\ startTime' = startTime
            /\ elapsedTime' = elapsedTime
            /\ frameCount' = frameCount)]_vars

\* C20: starting an idle scheduler emits exactly one willStart and then
\* exactly one didStart, before any willUpdate of that run; when didStart is
\* emitted the scheduler is running and its first tick is scheduled; and
\* the update events of a run carry the start time its didStart carried.
C20_StartEmitsInOrder ==
    [][/\ (ulast'.op = "start" /\ ~running)
            => (/\ Names(uemitted') = <<"willStart", "didStart">>
                /\ uemitted'[2].at.running
                /\ uemitted'[2].at.pending >= 1
                /\ uemitted'[2].at.pending = pending + 1
                /\ pending' = uemitted'[2].at.pending
                /\ uemitted'[2].at.startTime = now
                /\ ulast'.started = <<uemitted'[2].at.startTime>>)
       /\ ulast'.op = "frame"
            => \A i \in 1..Len(uemitted') :
                    uemitted'[i].name \in {"willUpdate", "didUpdate"}
                    => ulast'.started = <<uemitted'[i].at.startTime>>]_vars

C20_Witness ==
    /\ ulast.op = "start"
    /\ Len(uemitted) = 2
    /\ uemitted[2].name = "didStart"
    /\ ~uemitted[1].at.running
    /\ startTime > 0
    /\ frameCount > 0

\* The willUpdate and didUpdate events among ev, in order.
UpdateEvents(ev) ==
    SelectSeq(ev, LAMBDA e : e.name \in {"willUpdate", "didUpdate"})

\* C21: every tick emits exactly one willUpdate followed by exactly one
\* didUpdate, the didUpdate frame count is the willUpdate frame count plus
\* one, and the frame count only changes by a tick, by exactly +1; start
\* and stop never change it.
C21_FrameCountByOne ==
    [][/\ ulast'.op # "frame" => frameCount' = frameCount
       /\ ulast'.op = "frame" =>
            LET ue == UpdateEvents(uemitted')
            IN  /\ Len(ue) = 2 * pending
                /\ \A i \in 1..pending :
                    /\ ue[2 * i - 1].name = "willUpdate"
                    /\ ue[2 * i].name = "didUpdate"
                    /\ ue[2 * i - 1].at.frameCount = frameCount + (i - 1)
                    /\ ue[2 * i].at.frameCount = ue[2 * i - 1].at.frameCount + 1
                /\ frameCount' = frameCount + pending]_vars

C21_Witness ==
    /\ ulast.op = "frame"
    /\ frameCount >= 2
    /\ Len(uemitted) >= 2
    /\ uemitted[1].name = "willUpdate"
    /\ uemitted[2].at.frameCount = frameCount
    /\ ulast.started # <<0>>

\* C22: after stop() on a running scheduler, at most one further tick
\* completes, and then exactly one didStop is emitted, whose frameCount is
\* that of the last didUpdate: the frame that follows a stop consists of
\* willUpdate, didUpdate, didStop and leaves no tick scheduled.
C22_OneTickThenDidStop ==
    [][(ulast'.op = "frame" /\ ~running)
        => (/\ Names(uemitted') = <<"willUpdate", "didUpdate", "didStop">>
            /\ uemitted'[3].at.frameCount = uemitted'[2].at.frameCount
            /\ pending' = 0)]_vars

\* The elapsed times carried by the events ev never decrease from one event
\* to the next, starting from the value before them.
NonDecreasing(before, ev) ==
    /\ \A i \in 1..Len(ev) : \A j \in i..Len(ev) :
            ev[i].at.elapsedTime <= ev[j].at.elapsedTime
    /\ (before # <<>> /\ ev # <<>>) => before[1] <= ev[1].at.elapsedTime

\* C23 (as stated): the elapsed time carried by successive willUpdate and
\* didUpdate events never decreases over the whole life of the scheduler,
\* across ticks and across stop/start cycles.
C23_ElapsedNeverDecreases ==
    [][ulast'.op = "frame"
        => NonDecreasing(ulast.carried, UpdateEvents(uemitted'))]_vars

\* C23 (amended): between one start and the next, the elapsed time carried
\* by successive willUpdate and didUpdate events never decreases; a start
\* sets the elapsed time back to zero.
C23_ElapsedMonotoneWithinRun ==
    [][/\ ulast'.op = "frame"
            => NonDecreasing(ulast.inRun, UpdateEvents(uemitted'))
       /\ (ulast'.op = "start" /\ uemitted' # <<>>) => elapsedTime' = 0]_vars

C23_Witness ==
    /\ ulast.op = "frame"
    /\ uemitted[1].name = "willUpdate"
    /\ uemitted[1].at.elapsedTime > 0
    /\ uemitted[2].at.elapsedTime > uemitted[1].at.elapsedTime
    /\ startTime > 0

\* C24: after a tick whose frame timestamp is t, the elapsedTime reported in
\* didUpdate equals t minus the start time recorded by the most recent
\* start.
C24_ElapsedIsTimeSinceStart ==
    ulast.op = "frame" =>
        \A i \in 1..Len(uemitted) :
            uemitted[i].name = "didUpdate"
            => uemitted[i].at.elapsedTime = now - uemitted[i].at.startTime

\* C25: emit(name, payload) invokes every handler registered for name when
\* it begins exactly once each, in the order of registration, with that
\* payload, before it returns; handlers registered for other names are not
\* invoked.
C25_EmitDeliversInOrder ==
    blast.op = "emit" =>
        delivered = [i \in 1..Len(blast.before) |->
                        [handler |-> blast.before[i], name |-> blast.name,
                         payload |-> blast.payload]]

C25_Witness ==
    /\ blast.op = "emit"
    /\ Len(delivered) >= 2
    /\ blast.payload = "q"
    /\ \E n \in EventNames \ {blast.name} : handlers[n] # <<>>

\* The position of handler h in list, 0 when it is not there.
PositionOf(list, h) ==
    IF h \in Range(list) THEN CHOOSE i \in 1..Len(list) : list[i] = h ELSE 0

\* C26: if a handler removes itself or another handler of the same event
\* while an emit of that event is in progress, every handler registered
\* when the emit began is still invoked exactly once in that pass; the
\* removal takes effect for later emits.
C26_RemovalDuringEmit ==
    [][\A n \in EventNames :
        (/\ blast'.op = "emit" /\ blast'.name = n
         /\ blast'.who \in Range(handlers[n])
         /\ blast'.whom \in Range(handlers[n]))
        => (/\ \A h \in Range(handlers[n]) :
                Cardinality({i \in 1..Len(delivered') :
                                delivered'[i].handler = h}) = 1
            /\ Len(delivered') = Len(handlers[n])
            /\ handlers'[n] = RemoveHandler(handlers[n], blast'.whom))]_vars

C26_Witness ==
    /\ blast.op = "emit"
    /\ blast.who # Null
    /\ PositionOf(blast.before, blast.who) > 0
    /\ PositionOf(blast.before, blast.whom) > PositionOf(blast.before, blast.who)
    /\ ~(blast.whom \in Range(handlers[blast.name]))

\* Every key of d other than those of ks is in e with the same value.
OthersKept(d, e, ks) ==
    \A j \in DOMAIN d \ ks : j \in DOMAIN e /\ e[j] = d[j]

\* C27: set(key, value) with a string key makes get(key) return value,
\* leaves every other key's value unchanged, returns value, and emits
\* exactly one didSet event whose config payload is the whole map including
\* the new value; set(object) does the same for every key of the object,
\* with one didSet event.
C27_SetThenGet ==
    [][/\ clast'.op = "set" =>
            /\ ConfigGet(data', clast'.key, Undefined) = RetValue(clast'.value)
            /\ OthersKept(data, data', {clast'.key})
            /\ keys(data') = keys(data) \cup {clast'.key}
            /\ clast'.ret = RetValue(clast'.value)
            /\ Len(cemitted') = 1
            /\ cemitted'[1].name = "didSet"
            /\ cemitted'[1].config = data'
       /\ clast'.op = "setAll" =>
            /\ \A k \in DOMAIN clast'.object :
                    ConfigGet(data', k, Undefined) = RetValue(clast'.object[k])
            /\ OthersKept(data, data', DOMAIN clast'.object)
            /\ keys(data') = keys(data) \cup DOMAIN clast'.object
            /\ Len(cemitted') = 1
            /\ cemitted'[1].name = "didSet"
            /\ cemitted'[1].config = data']_vars

\* C28: remove(key) on an existing key returns its previous value and
\* leaves the key in keys() with value null; delete(key) on an existing key
\* returns its previous value and removes the key from keys(); both return
\* null and leave the map unchanged when the key does not exist; neither
\* changes any other key.
C28_RemoveAndDelete ==
    [][\A k \in CfgKeys :
        /\ (clast'.op \in {"remove", "delete"} /\ clast'.key = k
            /\ ~(k \in keys(data)))
            => (data' = data /\ clast'.ret = RetValue(CfgNull))
        /\ (clast'.op = "remove" /\ clast'.key = k /\ k \in keys(data))
            => (/\ clast'.ret = RetValue(data[k])
                /\ keys(data') = keys(data)
                /\ data'[k] = CfgNull
                /\ OthersKept(data, data', {k}))
        /\ (clast'.op = "delete" /\ clast'.key = k /\ k \in keys(data))
            => (/\ clast'.ret = RetValue(data[k])
                /\ keys(data') = keys(data) \ {k}
                /\ OthersKept(data, data', {k}))]_vars

C28_Witness ==
    /\ clast.op = "delete"
    /\ clast.ret = RetValue("true")
    /\ ~(clast.key \in keys(data))
    /\ \E j \in keys(data) : data[j] = CfgNull
    /\ \E j \in keys(data) : data[j] # CfgNull

\* C30: _destroy(x) removes at most x: for every object y other than x, y's
\* membership in the live set, the stage list and the viewport list is the
\* same before and after the call, also for an x that was never registered
\* with this manager or that was registered with another game instance.
C30_DestroyRemovesAtMostX ==
    [][last'.op = "destroy" =>
        \A y \in Objects \ {last'.obj} :
            /\ (y \in Range(store)) = (y \in Range(store'))
            /\ (y \in Range(stages)) = (y \in Range(stages'))
            /\ (y \in Range(viewports)) = (y \in Range(viewports'))]_vars

\* C29: destroy does not cascade: _destroy(c) of a container c leaves every
\* child of c in the registry's live set, leaves c's child list unchanged,
\* and leaves each child's parent reference pointing to c.
C29_DestroyDoesNotCascade ==
    [][\A c \in built :
        (regVars' # regVars /\ last'.op = "destroy" /\ last'.obj = AsObject(c))
        => (/\ children' = children
            /\ parent' = parent
            /\ \A k \in Range(children[c]) \ {c} :
                /\ parent'[k] = c
                /\ (AsObject(k) \in Range(store))
                        => (AsObject(k) \in Range(store')))]_vars

C29_Witness ==
    /\ last.op = "destroy"
    /\ \E c \in built :
        /\ last.obj = AsObject(c)
        /\ ~(AsObject(c) \in Range(store))
        /\ \E k \in Range(children[c]) \ {c} :
            /\ parent[k] = c
            /\ AsObject(k) \in Range(store)

\* C31: at most one tick callback of the update scheduler is pending at any
\* time.
C31_AtMostOnePending == pending <= 1

\* The last operation was a frame in which didStop was emitted and after
\* which no tick is scheduled.
DidStopAndIdle ==
    /\ ulast.op = "frame"
    /\ \E i \in 1..Len(uemitted) : uemitted[i].name = "didStop"
    /\ pending = 0

\* The frame count has reached the number of frames followed.
FramesExhausted == frameCount + pending > MaxFrames

\* C32: every willStop is eventually followed by a didStop: whenever stop()
\* is called, whatever the scheduler's state, and start() is not called
\* afterwards, a didStop is emitted and no tick is pending afterwards.
C32_WillStopLeadsToDidStop ==
    (ulast.op = "stop") ~> (DidStopAndIdle \/ ulast.op = "start" \/ FramesExhausted)

====
